---- MODULE Spec2Model ----
(***************************************************************************)
(* Model of api/confluence.py (ConfluenceClient) and of the /search route  *)
(* of api/routes.py.                                                       *)
(*                                                                         *)
(* A client owns an OrderedDict cache of page records, and for every       *)
(* fetch_pages call an asyncio event loop plus an aiohttp session.  The    *)
(* page records are Python dicts: the cache and the lists handed back to   *)
(* the caller hold references to them, so the records live in a heap and   *)
(* the cache, the tasks and the results hold references into it.           *)
(*                                                                         *)
(* References are abstract: the record built by the i-th fetch of a batch  *)
(* is named MaxId + i, and when the next call starts (nothing but the      *)
(* cache holds records then), the record cached under key k is renamed k   *)
(* and every other name is free again (CompactCache, CompactHeap).         *)
(*                                                                         *)
(* Sizes are in abstract units: sys.getsizeof of a record is a positive    *)
(* number fixed when the dict is built, and CACHE_LIMIT_BYTES is drawn     *)
(* from 0..MaxLimit so that the ceiling is reached within the bounds.      *)
(***************************************************************************)
EXTENDS Integers, Sequences, FiniteSets, TLC

\* ---------------------------------------------------------------- bounds
MaxId == 3          \* page identifiers are 1..MaxId
MaxPages == 2       \* length of the list search_pages returns
MaxSearches == 2    \* number of search calls in a behaviour
MaxSize == 2        \* sys.getsizeof of a record is in 1..MaxSize
MaxLimit == 2       \* CACHE_LIMIT_BYTES is in 0..MaxLimit
MaxReqs == 2        \* number of /search requests handled side by side
MaxQueryLen == 3    \* length of the query strings enumerated

Ids == 1..MaxId
Sizes == 1..MaxSize

\* Python's None, as the value of a slot that holds a heap reference otherwise.
None == 0

\* Body texts of a non-200 search response.
Bodies == {"bad gateway", "unauthorized"}

\* Status codes of the search response.
Statuses == {200, 404, 500}

\* Page bodies in storage format, as token sequences: "tag" is a markup tag,
\* "sp" a whitespace character, anything else a character of text.
Markups == { <<"tag", "sp", "a", "tag">>, <<"a">> }

\* The references search_pages can return: an id, and whether the "type" key is there.
Refs == [id : Ids, hasType : BOOLEAN]

RECURSIVE SeqsUpTo(_, _)
SeqsUpTo(S, n) ==
    IF n = 0 THEN { <<>> }
    ELSE LET shorter == SeqsUpTo(S, n - 1)
         IN  shorter \cup { Append(s, x) : s \in { t \in shorter : Len(t) = n - 1 }, x \in S }

PageLists == SeqsUpTo(Refs, MaxPages)

VARIABLES
    CACHE_LIMIT_BYTES,  \* the class attribute, in abstract size units
    cache,              \* self.cache: sequence of [key, ref], last = most recent end
    heap,               \* the record dicts: reference -> record, or Free
    loop,               \* self.loop: None or the id of an event loop
    session,            \* self.session: None (unset) or the id of a session
    open,               \* ids of the sessions/loops created and not closed
    ctr,                \* number of sessions/loops created so far
    pc,                 \* "idle", or "gather" while run_until_complete(_gather) runs
    pages,              \* the list search_pages returned to the running search
    tasks,              \* the _get_page tasks of the running batch
    results,            \* what fetch_pages returned (references or None)
    ret,                \* what search returned (references)
    error,              \* what search raised: [type, message]
    searchResp,         \* the response of the upstream search call: [status, body]
    requests,           \* per id, the number of page requests issued so far
    last,               \* the _get_page, _cache_put or _cache_get call that ended most recently
    stored,             \* ids put into a cache and not removed by popitem since
    nsearch,            \* number of search calls so far
    putRec,             \* for the id put last and the ids in stored: the item of
                        \* the most recent _cache_put(id, item); Free for the others
    query,              \* the query string handed to search_pages
    sent,               \* the cql parameter search_pages sent upstream, <<>> before
    clients,            \* the clients get_client built for the requests in flight
    handlers            \* the /search requests being handled, one thread each

\* The query of search_pages, and the requests handled at the same time.
queryVars == << query, sent >>

concVars == << clients, handlers >>

vars == << CACHE_LIMIT_BYTES, cache, heap, loop, session, open, ctr, pc, pages,
           tasks, results, ret, error, searchResp, requests, last, stored, nsearch,
           putRec, queryVars, concVars >>

\* ------------------------------------------------------- text normalisation
\* BeautifulSoup(text, "html.parser").stripped_strings: the text nodes between
\* the tags, each stripped of leading and trailing whitespace, the empty ones dropped.
RECURSIVE TextNodes(_, _, _)
TextNodes(text, cur, acc) ==
    IF text = <<>> THEN (IF cur = <<>> THEN acc ELSE Append(acc, cur))
    ELSE IF Head(text) = "tag"
         THEN TextNodes(Tail(text), <<>>, IF cur = <<>> THEN acc ELSE Append(acc, cur))
         ELSE TextNodes(Tail(text), Append(cur, Head(text)), acc)

RECURSIVE LStrip(_)
LStrip(s) == IF s # <<>> /\ Head(s) = "sp" THEN LStrip(Tail(s)) ELSE s

Reverse(s) == [i \in 1..Len(s) |-> s[Len(s) + 1 - i]]

StripWs(s) == Reverse(LStrip(Reverse(LStrip(s))))

StrippedStrings(text) ==
    LET nodes == TextNodes(text, <<>>, <<>>)
    IN  SelectSeq([i \in 1..Len(nodes) |-> StripWs(nodes[i])], LAMBDA n : n # <<>>)

RECURSIVE JoinSp(_)
JoinSp(strs) ==
    IF strs = <<>> THEN <<>>
    ELSE IF Len(strs) = 1 THEN strs[1]
    ELSE strs[1] \o <<"sp">> \o JoinSp(Tail(strs))

\* ' '.join(soup.stripped_strings)
TextStripped(text) == JoinSp(StrippedStrings(text))

\* ------------------------------------------------------------------ cache
CacheKeys(c) == { c[i].key : i \in 1..Len(c) }

CacheIndex(c, key) == CHOOSE i \in 1..Len(c) : c[i].key = key

CacheRef(c, key) == c[CacheIndex(c, key)].ref

\* A size that counts the dict itself, too: never 0, even for an empty cache.
RECURSIVE CacheSizeWithDict(_, _)
CacheSizeWithDict(c, h) ==
    IF c = <<>> THEN 1 ELSE h[Head(c).ref].sz + CacheSizeWithDict(Tail(c), h)

\* _cache_size: the sum of sys.getsizeof over the values.
RECURSIVE CacheSize(_, _)
CacheSize(c, h) ==
    IF c = <<>> THEN 0 ELSE h[Head(c).ref].sz + CacheSize(Tail(c), h)

\* A cache check that never finds the key.
InCacheNever(c, key) == FALSE

\* page_id in self.cache
InCache(c, key) == key \in CacheKeys(c)

\* A move to the least recent end: move_to_end(key, last=False).
MoveToFront(c, key) ==
    LET i == CacheIndex(c, key)
    IN  << c[i] >> \o SubSeq(c, 1, i - 1) \o SubSeq(c, i + 1, Len(c))

\* OrderedDict.move_to_end(key) for a key that is present.
MoveToEnd(c, key) ==
    LET i == CacheIndex(c, key)
    IN  SubSeq(c, 1, i - 1) \o SubSeq(c, i + 1, Len(c)) \o << c[i] >>

\* A _cache_get that hands back the value at the most recent end.
CacheGetOfLast(c, key) ==
    IF key \in CacheKeys(c)
    THEN [raised |-> FALSE, cache |-> MoveToEnd(c, key), ref |-> c[Len(c)].ref]
    ELSE [raised |-> TRUE, cache |-> c, ref |-> None]

\* _cache_get: [raised, cache, ref]; move_to_end raises KeyError for an absent key.
CacheGet(c, key) ==
    IF key \in CacheKeys(c)
    THEN [raised |-> FALSE, cache |-> MoveToEnd(c, key), ref |-> CacheRef(c, key)]
    ELSE [raised |-> TRUE, cache |-> c, ref |-> None]

\* self.cache[key] = item: a present key keeps its place, a new one goes last.
CacheSetItem(c, key, ref) ==
    IF key \in CacheKeys(c)
    THEN [c EXCEPT ![CacheIndex(c, key)].ref = ref]
    ELSE Append(c, [key |-> key, ref |-> ref])

\* An eviction from the least recent end: popitem(last=False).
PopItemFirst(c) == Tail(c)

\* OrderedDict.popitem(): removes the pair at the most recent end.
PopItem(c) == SubSeq(c, 1, Len(c) - 1)

\* An eviction that empties the cache once the ceiling is passed.
EvictLoopClear(c, h, limit, n) ==
    IF CacheSize(c, h) > limit
    THEN [cache |-> <<>>, pops |-> Len(c), popEmpty |-> FALSE]
    ELSE [cache |-> c, pops |-> 0, popEmpty |-> FALSE]

\* The while loop of _cache_put: [cache, pops, popEmpty]; popitem on an
\* empty dict raises KeyError.
RECURSIVE EvictLoop(_, _, _, _)
EvictLoop(c, h, limit, n) ==
    IF CacheSize(c, h) > limit
    THEN IF c = <<>>
         THEN [cache |-> c, pops |-> n, popEmpty |-> TRUE]
         ELSE EvictLoop(PopItem(c), h, limit, n + 1)
    ELSE [cache |-> c, pops |-> n, popEmpty |-> FALSE]

\* A _cache_put that forgets to evict.
CachePutNoEvict(c, h, limit, key, ref) ==
    [cache |-> CacheSetItem(c, key, ref), pops |-> 0, popEmpty |-> FALSE]

\* _cache_put
CachePut(c, h, limit, key, ref) == EvictLoop(CacheSetItem(c, key, ref), h, limit, 0)


\* ---------------------------------------------------------------- records
\* serialized_page of _get_page.  sz is sys.getsizeof of the dict, and raw keeps
\* the text the dict was built with (text is overwritten by search).
Record(id, text, sz) ==
    [title |-> id, text |-> text, url |-> <<"wiki", id>>, sz |-> sz, raw |-> text]

\* A reference that names no record.
Free == [title |-> 0, text |-> <<>>, url |-> <<>>, sz |-> 0, raw |-> <<>>]

\* References: 1..MaxId for the records the cache held when the call started,
\* MaxId + i for the record built by the i-th fetch of the batch.
Slots == 1..(MaxId + MaxPages)

\* The cache and the heap with the record cached under key k renamed k, and
\* every record the cache does not hold dropped.
CompactCache(c) == [i \in 1..Len(c) |-> [key |-> c[i].key, ref |-> c[i].key]]

CompactHeap(c, h) ==
    [s \in Slots |-> IF s \in CacheKeys(c) THEN h[CacheRef(c, s)] ELSE Free]

CompactCall(c, call) ==
    [call EXCEPT !.ref = IF call.id \in CacheKeys(c) /\ CacheRef(c, call.id) = call.ref
                         THEN call.id ELSE None]

NoError == [type |-> "none", message |-> <<>>]

\* UpstreamProviderError(f"Error during Confluence search: {response.text}")
UpstreamProviderError(body) ==
    [type |-> "UpstreamProviderError",
     message |-> <<"Error during Confluence search: ", body>>]

NoCall == [id |-> 0, kind |-> "none", ref |-> None, hit |-> FALSE, pops |-> 0]

NoReqs == [k \in Ids |-> 0]

\* A search_pages check that lets client errors through.
StatusOkOnlyServerErrors(status) == status < 500

\* search_pages: response.status_code != 200 raises.
StatusOk(status) == status = 200

\* _gather: one _get_page task per page that has the "type" key, in input order.
Gather(list) ==
    LET eligible == SelectSeq(list, LAMBDA p : p.hasType)
    IN  [i \in 1..Len(eligible) |->
            [id |-> eligible[i].id, st |-> "new", res |-> None, resp |-> "none",
             exc |-> "none"]]

\* A client as __init__ leaves it, before any call.
InitClient ==
    /\ CACHE_LIMIT_BYTES \in 0..MaxLimit
    /\ cache = <<>>
    /\ heap = [s \in Slots |-> Free]
    /\ loop = None
    /\ session = None
    /\ open = {}
    /\ ctr = 0
    /\ pc = "idle"
    /\ pages = <<>>
    /\ tasks = <<>>
    /\ results = <<>>
    /\ ret = <<>>
    /\ error = NoError
    /\ searchResp = [status |-> 0, body |-> ""]
    /\ requests = NoReqs
    /\ last = NoCall
    /\ stored = {}
    /\ nsearch = 0
    /\ putRec = [k \in Ids |-> Free]
    /\ sent = <<>>
    /\ clients = <<>>
    /\ handlers = <<>>

Init == InitClient /\ query = <<>>

\* ----------------------------------------------------------------- search
\* search -> search_pages when the upstream search answers with a non-200
\* status: UpstreamProviderError leaves search before fetch_pages is called.
\* newClient: the call comes from the route, on a client get_client just built.
SearchFail(newClient, status, body) ==
    /\ pc = "idle"
    /\ nsearch < MaxSearches
    /\ ~StatusOk(status)
    /\ nsearch' = nsearch + 1
    /\ searchResp' = [status |-> status, body |-> body]
    /\ error' = UpstreamProviderError(body)
    /\ pages' = <<>>
    /\ tasks' = <<>>
    /\ results' = <<>>
    /\ ret' = <<>>
    /\ cache' = IF newClient THEN <<>> ELSE cache
    /\ loop' = IF newClient THEN None ELSE loop
    /\ session' = IF newClient THEN None ELSE session
    /\ UNCHANGED << CACHE_LIMIT_BYTES, heap, open, ctr, pc, requests, last, stored >>
    /\ UNCHANGED << putRec, queryVars, concVars >>

\* search -> search_pages with a 200 answer, then fetch_pages up to
\* run_until_complete: _start_session builds the loop and the session, _gather
\* builds the tasks.
SearchStart(newClient, status, list) ==
    /\ pc = "idle"
    /\ nsearch < MaxSearches
    /\ StatusOk(status)
    /\ nsearch' = nsearch + 1
    /\ searchResp' = [status |-> status, body |-> ""]
    /\ error' = NoError
    /\ pages' = list
    /\ ctr' = ctr + 1
    /\ loop' = ctr + 1
    /\ session' = ctr + 1
    /\ open' = open \cup {ctr + 1}
    /\ tasks' = Gather(list)
    /\ results' = <<>>
    /\ ret' = <<>>
    /\ LET c == IF newClient THEN <<>> ELSE cache IN
       /\ cache' = CompactCache(c)
       /\ heap' = CompactHeap(c, heap)
       /\ last' = CompactCall(c, last)
    /\ pc' = "gather"
    /\ UNCHANGED << CACHE_LIMIT_BYTES, requests, stored >>
    /\ UNCHANGED << putRec, queryVars, concVars >>

\* ConfluenceClient.search called again on the same client.
ClientSearchFail == \E status \in Statuses, body \in Bodies : SearchFail(FALSE, status, body)

ClientSearchStart == \E status \in Statuses, list \in PageLists : SearchStart(FALSE, status, list)

\* The /search route: get_client(settings) builds a client, then client.search.
RouteSearchFail == \E status \in Statuses, body \in Bodies : SearchFail(TRUE, status, body)

RouteSearchStart == \E status \in Statuses, list \in PageLists : SearchStart(TRUE, status, list)

AllStarted == \A j \in 1..Len(tasks) : tasks[j].st # "new"

\* _get_page up to its first suspension.  The loop runs the tasks' first steps
\* in the order gather created them, before any response is handled.
TaskStart(i) ==
    /\ pc = "gather"
    /\ i \in 1..Len(tasks)
    /\ tasks[i].st = "new"
    /\ \A j \in 1..(i - 1) : tasks[j].st # "new"
    /\ LET id == tasks[i].id IN
       IF InCache(cache, id)
       THEN LET g == CacheGet(cache, id) IN
            /\ cache' = g.cache
            /\ tasks' = [tasks EXCEPT ![i].st = "done", ![i].res = g.ref, ![i].resp = "hit"]
            /\ last' = [id |-> id, kind |-> "record", ref |-> g.ref, hit |-> TRUE, pops |-> 0]
            /\ requests' = requests
       ELSE /\ tasks' = [tasks EXCEPT ![i].st = "pending"]
            /\ requests' = [requests EXCEPT ![id] = @ + 1]
            /\ UNCHANGED << cache, last >>
    /\ UNCHANGED << CACHE_LIMIT_BYTES, heap, loop, session, open, ctr, pc, pages,
                    results, ret, error, searchResp, stored, nsearch >>
    /\ UNCHANGED << putRec, queryVars, concVars >>

\* Fetches awaited one after the other: a response is handled only when the
\* fetches before it have ended.
PendingInOrder(i) ==
    /\ pc = "gather"
    /\ i \in 1..Len(tasks)
    /\ tasks[i].st = "pending"
    /\ \A j \in 1..(i - 1) : tasks[j].st \in {"done", "raised"}

Pending(i) ==
    /\ pc = "gather"
    /\ i \in 1..Len(tasks)
    /\ tasks[i].st = "pending"
    /\ AllStarted

\* session.get raises: the timeout elapsed or the connection failed.
RespondNetFail(i) ==
    /\ Pending(i)
    /\ tasks' = [tasks EXCEPT ![i].st = "raised", ![i].resp = "netfail",
                              ![i].exc = "NetworkError"]
    /\ last' = [id |-> tasks[i].id, kind |-> "raised", ref |-> None, hit |-> FALSE, pops |-> 0]
    /\ UNCHANGED << CACHE_LIMIT_BYTES, cache, heap, loop, session, open, ctr, pc, pages,
                    results, ret, error, searchResp, requests, stored, nsearch >>
    /\ UNCHANGED << putRec, queryVars, concVars >>

\* A fetch that raises on a non-success status (raise_for_status) instead of
\* returning None.
RespondNotOkRaises(i) ==
    /\ Pending(i)
    /\ tasks' = [tasks EXCEPT ![i].st = "raised", ![i].resp = "notok",
                              ![i].exc = "ClientResponseError"]
    /\ last' = [id |-> tasks[i].id, kind |-> "raised", ref |-> None, hit |-> FALSE, pops |-> 0]
    /\ UNCHANGED << CACHE_LIMIT_BYTES, cache, heap, loop, session, open, ctr, pc, pages,
                    results, ret, error, searchResp, requests, stored, nsearch >>
    /\ UNCHANGED << putRec, queryVars, concVars >>

\* not response.ok: logged, None returned.
RespondNotOk(i) ==
    /\ Pending(i)
    /\ tasks' = [tasks EXCEPT ![i].st = "done", ![i].res = None, ![i].resp = "notok"]
    /\ last' = [id |-> tasks[i].id, kind |-> "None", ref |-> None, hit |-> FALSE, pops |-> 0]
    /\ UNCHANGED << CACHE_LIMIT_BYTES, cache, heap, loop, session, open, ctr, pc, pages,
                    results, ret, error, searchResp, requests, stored, nsearch >>
    /\ UNCHANGED << putRec, queryVars, concVars >>

\* response.ok, but response.json() or one of the subscripts raises.
RespondMalformed(i) ==
    /\ Pending(i)
    /\ tasks' = [tasks EXCEPT ![i].st = "raised", ![i].resp = "malformed",
                              ![i].exc = "ParseError"]
    /\ last' = [id |-> tasks[i].id, kind |-> "raised", ref |-> None, hit |-> FALSE, pops |-> 0]
    /\ UNCHANGED << CACHE_LIMIT_BYTES, cache, heap, loop, session, open, ctr, pc, pages,
                    results, ret, error, searchResp, requests, stored, nsearch >>
    /\ UNCHANGED << putRec, queryVars, concVars >>

\* response.ok with a well-formed body: the record is built, put, and read back.
RespondOk(i, text, sz) ==
    /\ Pending(i)
    /\ LET id   == tasks[i].id
           ref  == MaxId + i
           h    == [heap EXCEPT ![ref] = Record(id, text, sz)]
           p    == CachePut(cache, h, CACHE_LIMIT_BYTES, id, ref)
           g    == CacheGet(p.cache, id)
           gone == CacheKeys(CacheSetItem(cache, id, ref)) \ CacheKeys(p.cache)
       IN
       /\ heap' = h
       /\ cache' = g.cache
       /\ stored' = (stored \cup {id}) \ gone
       /\ putRec' = [k \in Ids |-> IF k = id THEN Record(id, text, sz)
                                  ELSE IF k \in stored \ gone THEN putRec[k] ELSE Free]
       /\ IF p.popEmpty \/ g.raised
          THEN /\ tasks' = [tasks EXCEPT ![i].st = "raised", ![i].resp = "ok",
                                         ![i].exc = "KeyError"]
               /\ last' = [id |-> id, kind |-> "raised", ref |-> None, hit |-> FALSE,
                               pops |-> p.pops]
          ELSE /\ tasks' = [tasks EXCEPT ![i].st = "done", ![i].res = g.ref,
                                         ![i].resp = "ok"]
               /\ last' = [id |-> id, kind |-> "record", ref |-> g.ref, hit |-> FALSE,
                               pops |-> p.pops]
    /\ UNCHANGED << CACHE_LIMIT_BYTES, loop, session, open, ctr, pc, pages,
                    results, ret, error, searchResp, requests, nsearch >>
    /\ UNCHANGED << queryVars, concVars >>

\* Results collected in another order than the tasks' (here: reversed).
GatherResultsReversed(ts) == [i \in 1..Len(ts) |-> ts[Len(ts) + 1 - i].res]

\* asyncio.gather: the results in the order of the awaitables passed in.
GatherResults(ts) == [i \in 1..Len(ts) |-> ts[i].res]

\* search: page['text'] = text_stripped for every page of the list, in order.
RECURSIVE Normalise(_, _)
Normalise(h, refs) ==
    IF refs = <<>> THEN h
    ELSE Normalise([h EXCEPT ![Head(refs)].text = TextStripped(@)], Tail(refs))

\* Every task returned: gather hands the results to fetch_pages, which closes
\* the session and the loop and returns; search drops the None slots and
\* normalises the text of the pages that are left.
GatherDone ==
    /\ pc = "gather"
    /\ \A i \in 1..Len(tasks) : tasks[i].st = "done"
    /\ LET rs   == GatherResults(tasks)
           kept == SelectSeq(rs, LAMBDA r : r # None)
       IN
       /\ results' = rs
       /\ ret' = kept
       /\ heap' = Normalise(heap, kept)
    /\ open' = open \ {session}
    /\ pc' = "idle"
    /\ UNCHANGED << CACHE_LIMIT_BYTES, cache, loop, session, ctr, pages, tasks,
                    error, searchResp, requests, last, stored, nsearch >>
    /\ UNCHANGED << putRec, queryVars, concVars >>

\* A task raised: gather passes the exception on, run_until_complete raises it
\* out of fetch_pages and search.  _close_session_and_loop is not reached, and
\* the tasks still pending are never resumed.  (Between the task's exception
\* and the loop stopping, the loop still runs a few iterations, in which the
\* other tasks may go on; hence the Respond actions stay enabled until this one.)
GatherRaise ==
    /\ pc = "gather"
    /\ \E i \in 1..Len(tasks) :
          /\ tasks[i].st = "raised"
          /\ error' = [type |-> tasks[i].exc, message |-> <<>>]
    /\ pc' = "idle"
    /\ UNCHANGED << CACHE_LIMIT_BYTES, cache, heap, loop, session, open, ctr, pages,
                    tasks, results, ret, searchResp, requests, last, stored, nsearch >>
    /\ UNCHANGED << putRec, queryVars, concVars >>

Fetching ==
    \/ \E i \in 1..MaxPages : TaskStart(i)
    \/ \E i \in 1..MaxPages : RespondNetFail(i)
    \/ \E i \in 1..MaxPages : RespondNotOk(i)
    \/ \E i \in 1..MaxPages : RespondMalformed(i)
    \/ \E i \in 1..MaxPages, text \in Markups, sz \in Sizes : RespondOk(i, text, sz)
    \/ GatherDone
    \/ GatherRaise

\* Searches on one client.
Next == ClientSearchFail \/ ClientSearchStart \/ Fetching

Spec == Init /\ [][Next]_vars

\* Requests to the /search route, one after the other.
NextRoute == RouteSearchFail \/ RouteSearchStart \/ Fetching

SpecRoute == Init /\ [][NextRoute]_vars


\* ------------------------------------------------- the cache, called directly
\* client._cache_put(key, item) with a dict the caller built.  The results of
\* earlier calls are gone, and the records the cache drops are gone with it.
CallCachePut(key, text, sz) ==
    /\ pc = "idle"
    /\ LET c0   == CompactCache(cache)
           h    == [CompactHeap(cache, heap) EXCEPT ![key] = Record(key, text, sz)]
           p    == CachePut(c0, h, CACHE_LIMIT_BYTES, key, key)
           gone == CacheKeys(CacheSetItem(c0, key, key)) \ CacheKeys(p.cache)
       IN
       /\ heap' = CompactHeap(p.cache, h)
       /\ cache' = p.cache
       /\ stored' = (stored \cup {key}) \ gone
       /\ putRec' = [k \in Ids |-> IF k = key THEN Record(key, text, sz)
                                  ELSE IF k \in stored \ gone THEN putRec[k] ELSE Free]
       /\ error' = IF p.popEmpty THEN [type |-> "KeyError", message |-> <<>>] ELSE NoError
       /\ last' = [id |-> key, kind |-> "put", ref |-> key, hit |-> FALSE, pops |-> p.pops]
    /\ pages' = <<>>
    /\ tasks' = <<>>
    /\ results' = <<>>
    /\ ret' = <<>>
    /\ UNCHANGED << CACHE_LIMIT_BYTES, loop, session, open, ctr, pc, searchResp,
                    requests, nsearch >>
    /\ UNCHANGED << queryVars, concVars >>

\* client._cache_get(key)
CallCacheGet(key) ==
    /\ pc = "idle"
    /\ LET g == CacheGet(cache, key) IN
       /\ cache' = g.cache
       /\ error' = IF g.raised THEN [type |-> "KeyError", message |-> <<>>] ELSE NoError
       /\ last' = [id |-> key, kind |-> IF g.raised THEN "raised" ELSE "record",
                   ref |-> g.ref, hit |-> ~g.raised, pops |-> 0]
    /\ UNCHANGED << CACHE_LIMIT_BYTES, heap, loop, session, open, ctr, pc, pages, tasks,
                    results, ret, searchResp, requests, stored, nsearch >>
    /\ UNCHANGED << putRec, queryVars, concVars >>

NextCache ==
    \/ \E key \in Ids, text \in Markups, sz \in Sizes : CallCachePut(key, text, sz)
    \/ \E key \in Ids : CallCacheGet(key)

SpecCache == Init /\ [][NextCache]_vars

\* ------------------------------------------------------------- the query
\* Characters of a query: "a", "b", "c" and "1" stand for the letters and
\* digits, "_" is the underscore, the others are punctuation and whitespace.
Alnum == {"a", "b", "c", "1"}

\* What \w matches: the alphanumeric characters and the underscore.
WordChars == Alnum \cup {"_"}

\* The queries tried: every string over QueryChars up to MaxQueryLen, and "a/b?  c".
QueryChars == {"a", "_", "/", " "}

ScenarioE == <<"a", "/", "b", "?", " ", " ", "c">>

Queries == SeqsUpTo(QueryChars, MaxQueryLen) \cup {ScenarioE}

\* Every maximal run of characters outside kept becomes one space; inRun
\* tells that the character before was outside kept, too.
RECURSIVE Collapse(_, _, _)
Collapse(q, kept, inRun) ==
    IF q = <<>> THEN <<>>
    ELSE IF Head(q) \in kept
         THEN << Head(q) >> \o Collapse(Tail(q), kept, FALSE)
         ELSE (IF inRun THEN <<>> ELSE << " " >>) \o Collapse(Tail(q), kept, TRUE)

\* formatted_query = re.sub("\W+", " ", query)
FormatQuery(q) == Collapse(q, WordChars, FALSE)

\* search_pages up to the request: params["cql"] = f"text ~ {formatted_query}".
SearchPages ==
    /\ sent = <<>>
    /\ sent' = << "text ~ ", FormatQuery(query) >>
    /\ UNCHANGED << CACHE_LIMIT_BYTES, cache, heap, loop, session, open, ctr, pc, pages,
                    tasks, results, ret, error, searchResp, requests, last, stored,
                    nsearch, putRec, query, concVars >>

InitQuery == InitClient /\ query \in Queries

SpecQuery == InitQuery /\ [][SearchPages]_vars

\* ------------------------------------------ /search requests side by side
\* The route is a plain def: the server runs every request's handler on a
\* thread of its pool, so several handlers can be between get_client and the
\* end of client.search at once.  Each handler is followed through the calls
\* that touch a session: which client it got, the session and loop its
\* _start_session made (own), and for every fetch the session its request
\* went out on.  The cache is kept as the set of ids it holds: what a put
\* evicts has no part in which session a fetch uses.
NewClient == [session |-> None, loop |-> None, cached |-> {}]

\* A get_client that hands every request the client built for the first one.
GetClientShared(cs) == 1

\* get_client(settings): a client of its own for every request; the index it
\* gets in clients.
GetClient(cs) == Len(cs) + 1

\* The request arrives: client = get_client(settings).
ReqArrive ==
    /\ Len(handlers) < MaxReqs
    /\ LET c == GetClient(clients) IN
       /\ clients' = IF c > Len(clients) THEN Append(clients, NewClient) ELSE clients
       /\ handlers' = Append(handlers, [client |-> c, pc |-> "search", own |-> None,
                                        tasks |-> <<>>])
    /\ UNCHANGED << CACHE_LIMIT_BYTES, cache, heap, loop, session, open, ctr, pc, pages,
                    tasks, results, ret, error, searchResp, requests, last, stored,
                    nsearch, putRec, queryVars >>

\* client.search -> search_pages raises UpstreamProviderError: the route
\* answers 502.
ReqSearchFail(r, status) ==
    /\ r \in 1..Len(handlers)
    /\ handlers[r].pc = "search"
    /\ ~StatusOk(status)
    /\ handlers' = [handlers EXCEPT ![r].pc = "raised"]
    /\ UNCHANGED << CACHE_LIMIT_BYTES, cache, heap, loop, session, open, ctr, pc, pages,
                    tasks, results, ret, error, searchResp, requests, last, stored,
                    nsearch, putRec, queryVars, clients >>

\* search_pages returns the list; fetch_pages -> _start_session sets
\* self.loop and self.session of the handler's client, and _gather makes the tasks.
ReqSearchOk(r, status, list) ==
    /\ r \in 1..Len(handlers)
    /\ handlers[r].pc = "search"
    /\ StatusOk(status)
    /\ ctr' = ctr + 1
    /\ open' = open \cup {ctr + 1}
    /\ clients' = [clients EXCEPT ![handlers[r].client].session = ctr + 1,
                                  ![handlers[r].client].loop = ctr + 1]
    /\ LET eligible == SelectSeq(list, LAMBDA p : p.hasType) IN
       handlers' = [handlers EXCEPT
                       ![r].pc = "gather",
                       ![r].own = ctr + 1,
                       ![r].tasks = [i \in 1..Len(eligible) |->
                                        [id |-> eligible[i].id, st |-> "new", sess |-> None]]]
    /\ UNCHANGED << CACHE_LIMIT_BYTES, cache, heap, loop, session, pc, pages,
                    tasks, results, ret, error, searchResp, requests, last, stored,
                    nsearch, putRec, queryVars >>

\* _get_page of task i up to its first suspension: a cache hit, or
\* self.session.get(...) on whatever self.session is at that moment.
ReqTaskStart(r, i) ==
    /\ r \in 1..Len(handlers)
    /\ handlers[r].pc = "gather"
    /\ i \in 1..Len(handlers[r].tasks)
    /\ handlers[r].tasks[i].st = "new"
    /\ \A j \in 1..(i - 1) : handlers[r].tasks[j].st # "new"
    /\ LET c == clients[handlers[r].client] IN
       IF handlers[r].tasks[i].id \in c.cached
       THEN handlers' = [handlers EXCEPT ![r].tasks[i].st = "done"]
       ELSE handlers' = [handlers EXCEPT ![r].tasks[i].st = "pending",
                                         ![r].tasks[i].sess = c.session]
    /\ UNCHANGED << CACHE_LIMIT_BYTES, cache, heap, loop, session, open, ctr, pc, pages,
                    tasks, results, ret, error, searchResp, requests, last, stored,
                    nsearch, putRec, queryVars, clients >>

ReqPending(r, i) ==
    /\ r \in 1..Len(handlers)
    /\ handlers[r].pc = "gather"
    /\ i \in 1..Len(handlers[r].tasks)
    /\ handlers[r].tasks[i].st = "pending"
    /\ \A j \in 1..Len(handlers[r].tasks) : handlers[r].tasks[j].st # "new"

\* The response of task i: a record (put into the client's cache), None for
\* a non-success status, or an exception.
ReqRespond(r, i, outcome) ==
    /\ ReqPending(r, i)
    /\ handlers' = [handlers EXCEPT
                       ![r].tasks[i].st = IF outcome = "raised" THEN "raised" ELSE "done"]
    /\ clients' = IF outcome = "record"
                  THEN [clients EXCEPT ![handlers[r].client].cached =
                                           @ \cup {handlers[r].tasks[i].id}]
                  ELSE clients
    /\ UNCHANGED << CACHE_LIMIT_BYTES, cache, heap, loop, session, open, ctr, pc, pages,
                    tasks, results, ret, error, searchResp, requests, last, stored,
                    nsearch, putRec, queryVars >>

\* Every task returned: _close_session_and_loop closes self.session and
\* self.loop of the handler's client, and the route answers.
ReqGatherDone(r) ==
    /\ r \in 1..Len(handlers)
    /\ handlers[r].pc = "gather"
    /\ \A i \in 1..Len(handlers[r].tasks) : handlers[r].tasks[i].st = "done"
    /\ open' = open \ {clients[handlers[r].client].session}
    /\ handlers' = [handlers EXCEPT ![r].pc = "done"]
    /\ UNCHANGED << CACHE_LIMIT_BYTES, cache, heap, loop, session, ctr, pc, pages,
                    tasks, results, ret, error, searchResp, requests, last, stored,
                    nsearch, putRec, queryVars, clients >>

\* A task raised: the exception leaves fetch_pages and search, and the
\* session and the loop stay open.
ReqGatherRaise(r) ==
    /\ r \in 1..Len(handlers)
    /\ handlers[r].pc = "gather"
    /\ \E i \in 1..Len(handlers[r].tasks) : handlers[r].tasks[i].st = "raised"
    /\ handlers' = [handlers EXCEPT ![r].pc = "raised"]
    /\ UNCHANGED << CACHE_LIMIT_BYTES, cache, heap, loop, session, open, ctr, pc, pages,
                    tasks, results, ret, error, searchResp, requests, last, stored,
                    nsearch, putRec, queryVars, clients >>

Outcomes == {"record", "None", "raised"}

NextConc ==
    \/ ReqArrive
    \/ \E r \in 1..MaxReqs, status \in Statuses : ReqSearchFail(r, status)
    \/ \E r \in 1..MaxReqs, status \in Statuses, list \in PageLists : ReqSearchOk(r, status, list)
    \/ \E r \in 1..MaxReqs, i \in 1..MaxPages : ReqTaskStart(r, i)
    \/ \E r \in 1..MaxReqs, i \in 1..MaxPages, outcome \in Outcomes : ReqRespond(r, i, outcome)
    \/ \E r \in 1..MaxReqs : ReqGatherDone(r)
    \/ \E r \in 1..MaxReqs : ReqGatherRaise(r)

\* The ceiling has no part in the sessions: one value is enough.
InitConc == Init /\ CACHE_LIMIT_BYTES = MaxLimit

SpecConc == InitConc /\ [][NextConc]_vars

\* -------------------------------------------------------------- properties
\* C1: in the state reached when a _cache_put returns (and so in every state
\* between two calls), the sum of the sizes of the cached records is at most
\* CACHE_LIMIT_BYTES, whatever the keys, the sizes and the ceiling.
CacheWithinLimit == CacheSize(cache, heap) <= CACHE_LIMIT_BYTES

\* A put has just evicted, and left a non-empty cache filled up to the ceiling.
CachePutEvicted ==
    /\ last.kind = "put"
    /\ last.pops > 0
    /\ cache # <<>>
    /\ CacheSize(cache, heap) = CACHE_LIMIT_BYTES


\* The references of a list that carry the "type" key, in input order.
Eligible(list) == SelectSeq(list, LAMBDA p : p.hasType)

\* search has returned normally from a call that reached fetch_pages.
SearchReturned ==
    /\ pc = "idle"
    /\ nsearch > 0
    /\ searchResp.status = 200
    /\ error = NoError

\* C2: when fetch_pages completes, its list has one slot per reference that
\* carries the "type" key; slot i is None when the i-th such reference's fetch
\* got a non-success answer, and otherwise the record of that reference's
\* page, whatever the order in which the fetches ended; and the fetches (the
\* only source of page requests) are exactly those of the references with the key.
FetchPagesInInputOrder ==
    SearchReturned =>
        LET refs == Eligible(pages) IN
        /\ Len(results) = Len(refs)
        /\ Len(tasks) = Len(refs)
        /\ \A i \in 1..Len(refs) :
              /\ tasks[i].id = refs[i].id
              /\ (results[i] = None) <=> (tasks[i].resp = "notok")
              /\ results[i] # None => heap[results[i]].title = refs[i].id

\* A batch of two fetches with different outcomes completed, the first
\* reference's fetch ending after the second's.
FetchPagesOutOfOrderCompletion ==
    /\ SearchReturned
    /\ Len(results) = 2
    /\ results[1] # None
    /\ results[2] = None
    /\ tasks[1].resp = "ok"
    /\ last.id = tasks[1].id
    /\ last.kind = "record"
    /\ ~last.hit

\* C3: a network failure of one fetch stays with that fetch: when the call
\* has ended, search has not raised, no sibling is left unfinished and every
\* sibling's record is in the results.
NetworkFailureConfined ==
    ( /\ pc = "idle"
      /\ \E i \in 1..Len(tasks) : tasks[i].resp = "netfail"
      /\ \A i \in 1..Len(tasks) : tasks[i].exc \in {"none", "NetworkError"} )
    => /\ error = NoError
       /\ \A j \in 1..Len(tasks) : tasks[j].st \in {"done", "raised"}
       /\ \A j \in 1..Len(tasks) :
             (tasks[j].st = "done" /\ tasks[j].res # None)
                => \E n \in 1..Len(ret) : ret[n] = tasks[j].res

\* The records of the fetches that did not get a non-success answer, in order.
RecordsOfOthers(ts) ==
    LET others == SelectSeq(ts, LAMBDA t : t.resp # "notok")
    IN  [n \in 1..Len(others) |-> others[n].res]

NotOkCount(ts) == Cardinality({ i \in 1..Len(ts) : ts[i].resp = "notok" })

SoftMissState ==
    /\ \A i \in 1..Len(tasks) :
          tasks[i].resp = "notok" => (tasks[i].st = "done" /\ tasks[i].res = None)
    /\ ( /\ pc = "idle"
         /\ \E i \in 1..Len(tasks) : tasks[i].resp = "notok"
         /\ \A i \in 1..Len(tasks) : tasks[i].st = "done" )
       => /\ error = NoError
          /\ ret = RecordsOfOthers(tasks)
          /\ Len(ret) = Len(tasks) - NotOkCount(tasks)
          /\ \A n \in 1..Len(ret) : ret[n] # None

SoftMissStep ==
    \A i \in 1..Len(tasks) :
        ( /\ pc = "gather"
          /\ pc' = "gather"
          /\ tasks[i].resp # "notok"
          /\ tasks'[i].resp = "notok" )
        => (cache' = cache /\ heap' = heap /\ stored' = stored)

\* C4: a fetch answered with a non-success status ends with None, raises
\* nothing and leaves the cache as it was; and when the other fetches of the
\* batch have returned too, search raises nothing and returns exactly their
\* records, in order (one slot fewer per such answer).
SoftMiss == []SoftMissState /\ [][SoftMissStep]_vars

\* search returned one record from a batch of two fetches, the other of which
\* got a non-success answer.
SoftMissDropped ==
    /\ pc = "idle"
    /\ Len(tasks) = 2
    /\ NotOkCount(tasks) = 1
    /\ \A i \in 1..Len(tasks) : tasks[i].st = "done"
    /\ Len(ret) = 1
    /\ error = NoError

\* C5: a search call whose upstream search answers with a status other than
\* 200 raises UpstreamProviderError with the response's body text, starts no
\* loop and no session, creates no fetch, issues no page request and leaves
\* the cache as it was.
SearchFailureSurfaces ==
    [][ (nsearch' = nsearch + 1 /\ searchResp'.status # 200)
        => /\ error' = UpstreamProviderError(searchResp'.body)
           /\ pc' = "idle"
           /\ tasks' = <<>>
           /\ UNCHANGED << cache, heap, loop, session, open, ctr, requests >> ]_vars

\* search raised UpstreamProviderError with the body text on a client whose
\* cache holds a record.
SearchFailedWithCache ==
    /\ error.type = "UpstreamProviderError"
    /\ searchResp.status = 500
    /\ error.message[2] = searchResp.body
    /\ cache # <<>>
    /\ open = {}

\* C6: a fetch that got a successful, well-formed response has not raised: it
\* has returned the record it stored.  (Stated for the ceilings that can hold
\* any single record, so that a raise comes from a cache at its ceiling and
\* not from a ceiling too small for the record.)
FetchOkReturnsRecord ==
    \A i \in 1..Len(tasks) :
        (tasks[i].resp = "ok" /\ CACHE_LIMIT_BYTES >= MaxSize)
            => (tasks[i].st = "done" /\ tasks[i].res # None)

\* C7: no page request is issued for an identifier that has been stored in the
\* cache and not been evicted since.
NoRefetchWhileCached ==
    [][ \A k \in Ids : requests'[k] > requests[k] => k \notin stored ]_vars

\* C8: when a fetch_pages call has ended, every fetch of its batch has settled
\* and no session or loop is open.
ContextClosedWhenCallEnds ==
    pc = "idle" =>
        /\ open = {}
        /\ \A i \in 1..Len(tasks) : tasks[i].st \in {"done", "raised"}

\* Task i takes its first step (the cache check of _get_page) in this step.
Starts(i) ==
    /\ pc = "gather"
    /\ pc' = "gather"
    /\ tasks[i].st = "new"
    /\ tasks'[i].st # "new"

\* C9 as stated: a _get_page that starts after a _get_page for the same
\* identifier has returned (nothing else in between) is a cache hit and
\* issues no request.
SecondFetchIsCacheHit ==
    [][ \A i \in 1..Len(tasks) :
           (Starts(i) /\ last.id = tasks[i].id /\ last.kind \in {"record", "None"})
           => /\ tasks'[i].st = "done"
              /\ tasks'[i].res # None
              /\ requests' = requests ]_vars

\* C9, amended: a _get_page that starts after a _get_page for the same
\* identifier has returned a record (nothing else in between) issues no
\* request and returns that same record from the cache.
SecondFetchAfterRecordIsCacheHit ==
    [][ \A i \in 1..Len(tasks) :
           (Starts(i) /\ last.id = tasks[i].id /\ last.kind = "record")
           => /\ tasks'[i].st = "done"
              /\ tasks'[i].resp = "hit"
              /\ tasks'[i].res = last.ref
              /\ requests' = requests ]_vars

\* The call that ended last was a cache hit for an identifier that was
\* requested from upstream exactly once, in an earlier batch.
FetchedOnceThenHit ==
    /\ last.kind = "record"
    /\ last.hit
    /\ last.id \in Ids
    /\ requests[last.id] = 1
    /\ nsearch = 2
    /\ \A i \in 1..Len(tasks) : tasks[i].resp = "hit"

\* C10: the record the cache holds for an identifier still has the text it
\* was stored with.
CachedRecordImmutable ==
    \A i \in 1..Len(cache) : heap[cache[i].ref].text = heap[cache[i].ref].raw

\* C11: a fetch whose success response cannot be parsed into a record ends as
\* None: when every fetch of the batch has been answered (well-formed, not
\* parseable, or with a non-success status) and the call has ended, search has
\* not raised, the unparseable fetches' slots are None and every record of
\* the other fetches is returned.
MalformedFetchIsSoftMiss ==
    ( /\ pc = "idle"
      /\ \E i \in 1..Len(tasks) : tasks[i].resp = "malformed"
      /\ \A i \in 1..Len(tasks) :
            /\ tasks[i].resp \in {"hit", "ok", "notok", "malformed"}
            /\ tasks[i].exc \in {"none", "ParseError"} )
    => /\ error = NoError
       /\ Len(results) = Len(tasks)
       /\ \A i \in 1..Len(tasks) :
             /\ tasks[i].resp = "malformed" => results[i] = None
             /\ (tasks[i].st = "done" /\ tasks[i].res # None)
                   => \E n \in 1..Len(ret) : ret[n] = tasks[i].res

\* C12: for as long as the entry of k has not been evicted since the last
\* _cache_put(k, r), the cache holds for k a record equal to r, whatever puts
\* and gets of other identifiers came in between; and a _cache_get(k) that
\* has just returned has returned a record equal to r.
GetAfterPutReturnsPut ==
    /\ \A k \in stored :
          /\ InCache(cache, k)
          /\ heap[CacheRef(cache, k)] = putRec[k]
    /\ (last.kind = "record" /\ last.hit)
          => /\ last.id \in stored
             /\ last.ref # None
             /\ heap[last.ref] = putRec[last.id]

\* _cache_get(k) has just returned the record put for k, while the cache
\* holds the record of another identifier, too.
GetReturnedPutAmongOthers ==
    /\ last.kind = "record"
    /\ last.hit
    /\ Len(cache) = 2
    /\ cache[2].key = last.id
    /\ heap[last.ref] = putRec[last.id]
    /\ putRec[last.id].title = last.id
    /\ Cardinality(stored) = 2

\* The fetches of handler r whose request is out and not answered yet.
InFlight(r) == { i \in 1..Len(handlers[r].tasks) : handlers[r].tasks[i].st = "pending" }

\* C13, amended: under every interleaving of /search requests, each batch's
\* fetches go out only on the session that batch created, which is open while
\* they are in flight, and no session belongs to two batches.
BatchUsesOwnSession ==
    /\ \A r \in 1..Len(handlers) :
          \A i \in 1..Len(handlers[r].tasks) :
             /\ handlers[r].tasks[i].st = "pending" => handlers[r].tasks[i].sess # None
             /\ handlers[r].tasks[i].sess # None
                   => handlers[r].tasks[i].sess = handlers[r].own
    /\ \A r, q \in 1..Len(handlers) :
          (r # q /\ handlers[r].own # None) => handlers[r].own # handlers[q].own
    /\ \A r \in 1..Len(handlers) :
          (handlers[r].pc = "gather" /\ InFlight(r) # {}) => handlers[r].own \in open

\* C13 as stated: besides the above, no fetch is in flight while the context
\* of another batch is alive.  (Only the contexts of batches that are still
\* running or have returned are looked at, not one a raising batch left open.)
NoContextOverlap ==
    /\ BatchUsesOwnSession
    /\ \A r, q \in 1..Len(handlers) :
          (r # q /\ InFlight(r) # {} /\ handlers[r].pc = "gather"
                 /\ handlers[q].pc \in {"gather", "done"})
             => handlers[q].own \notin open

\* Two requests are fetching at the same time, each with a fetch in flight
\* on its own open session.
TwoBatchesInFlight ==
    /\ Len(handlers) = 2
    /\ InFlight(1) # {}
    /\ InFlight(2) # {}
    /\ handlers[1].pc = "gather"
    /\ handlers[2].pc = "gather"
    /\ handlers[1].own # handlers[2].own
    /\ {handlers[1].own, handlers[2].own} \subseteq open

\* C14: the query goes upstream with every maximal run of non-alphanumeric
\* characters (whitespace included) replaced by one space.
QueryRunsCollapsed ==
    sent # <<>> => sent[2] = Collapse(query, Alnum, FALSE)

\* C15: what a _cache_put evicts are the entries at the most recent end of
\* the order the insertion left: the cache after the put is that order
\* without its last pops entries (the least recently used ones stay).
EvictsMostRecentEnd ==
    [][ last'.kind = "put"
        => LET inserted == CacheSetItem(cache, last'.id, last'.id)
           IN  /\ last'.pops <= Len(inserted)
               /\ cache' = SubSeq(inserted, 1, Len(inserted) - last'.pops) ]_vars

\* A put that overwrote a cached identifier has evicted one entry, and not
\* the one it wrote: the entry at the most recent end went, the older stayed.
PutEvictedMoreRecentEntry ==
    /\ last.kind = "put"
    /\ last.pops = 1
    /\ cache # <<>>
    /\ cache[Len(cache)].key = last.id
    /\ stored = {last.id}

\* The entries of the cache other than k's, in order.
Without(c, k) == SelectSeq(c, LAMBDA e : e.key # k)

\* C16: a _cache_get(k) on a present key k returns k's record and leaves k at
\* the most recent end, the other entries in the order they had, and the
\* keys, the value of every key and the records as they were.
HitMovesToMostRecentEnd ==
    [][ (last'.kind = "record" /\ last'.hit)
        => LET k == last'.id IN
           /\ InCache(cache, k)
           /\ last'.ref = CacheRef(cache, k)
           /\ cache'[Len(cache')].key = k
           /\ Without(cache', k) = Without(cache, k)
           /\ CacheKeys(cache') = CacheKeys(cache)
           /\ Len(cache') = Len(cache)
           /\ \A j \in CacheKeys(cache) : CacheRef(cache', j) = CacheRef(cache, j)
           /\ heap' = heap ]_vars

\* _cache_get has just returned the record of a key that shares the cache
\* with another one, and the key is at the most recent end.
HitAtMostRecentEnd ==
    /\ last.kind = "record"
    /\ last.hit
    /\ Len(cache) = 2
    /\ cache[2].key = last.id
    /\ cache[1].key # last.id
    /\ error = NoError
    /\ CacheKeys(cache) = stored

\* C17: a _cache_put of an identifier the cache does not hold, into a cache
\* within the ceiling, with a record that takes the total over the ceiling,
\* evicts exactly one entry and leaves the total within the ceiling.
PutOverflowEvictsOne ==
    [][ ( /\ last'.kind = "put"
          /\ ~InCache(cache, last'.id)
          /\ CacheSize(cache, heap) <= CACHE_LIMIT_BYTES
          /\ CacheSize(cache, heap) + putRec'[last'.id].sz > CACHE_LIMIT_BYTES )
        => /\ last'.pops = 1
           /\ Len(cache') = Len(cache)
           /\ CacheSize(cache', heap') <= CACHE_LIMIT_BYTES ]_vars

\* The ceiling is the size of two equal records, two are cached, and the put
\* of a third one of that size has just evicted exactly one entry.
ThirdRecordEvictedOne ==
    /\ last.kind = "put"
    /\ last.pops = 1
    /\ Len(cache) = 2
    /\ ~InCache(cache, last.id)
    /\ \A i \in 1..Len(cache) : heap[cache[i].ref].sz = putRec[last.id].sz
    /\ CACHE_LIMIT_BYTES = 2 * putRec[last.id].sz
    /\ CacheSize(cache, heap) = CACHE_LIMIT_BYTES

\* C19 as stated: within a batch, a request for an identifier goes out only
\* if no other fetch of the batch has sent one for that identifier.
OneRequestPerIdInBatch ==
    [][ \A i \in 1..Len(tasks) :
           (Starts(i) /\ requests'[tasks[i].id] > requests[tasks[i].id])
           => ~ \E j \in 1..Len(tasks) :
                   /\ j # i
                   /\ tasks[j].id = tasks[i].id
                   /\ tasks[j].st # "new"
                   /\ tasks[j].resp # "hit" ]_vars

\* C19, amended: within a batch, every request is sent by the first step of
\* exactly one reference's fetch, for that reference's identifier, once, and
\* only when the cache does not hold the identifier at that moment: at most
\* one request per reference (not per identifier).
OneRequestPerReference ==
    [][ \A k \in Ids :
           requests'[k] # requests[k]
           => /\ requests'[k] = requests[k] + 1
              /\ k \notin CacheKeys(cache)
              /\ \E i \in 1..Len(tasks) :
                    /\ Starts(i)
                    /\ tasks[i].id = k
                    /\ tasks'[i].st = "pending"
                    /\ \A j \in 1..Len(tasks) : j # i => tasks'[j] = tasks[j] ]_vars

\* Two references of the first batch name the same identifier, and both
\* fetches have sent their request.
DuplicateReferencesBothRequested ==
    /\ pc = "gather"
    /\ nsearch = 1
    /\ Len(tasks) = 2
    /\ tasks[1].id = tasks[2].id
    /\ tasks[1].st = "pending"
    /\ tasks[2].st = "pending"
    /\ requests[tasks[1].id] = 2

\* C20: a _cache_put has ended without popitem raising KeyError on an empty
\* cache, after at most as many evictions as there were entries, whatever the
\* ceiling (0 included) and the size of the record.
EvictLoopEndsBeforeEmptyPop ==
    last.kind = "put"
        => /\ error = NoError
           /\ last.pops <= Cardinality(Ids)
           /\ Len(cache) + last.pops <= Cardinality(Ids)

\* The only record ever put is larger than the ceiling: the put has evicted
\* it, left the cache empty, and raised nothing.
OversizedRecordEvicted ==
    /\ last.kind = "put"
    /\ last.pops = 1
    /\ cache = <<>>
    /\ putRec[last.id].sz > CACHE_LIMIT_BYTES
    /\ CACHE_LIMIT_BYTES > 0
    /\ Cardinality({ k \in Ids : putRec[k] # Free }) = 1
    /\ error = NoError

\* Task i got its response (of whatever kind) from upstream.
Answered(i) == tasks[i].resp \in {"ok", "notok", "netfail", "malformed"}

\* C18: the fetches of a batch run in parallel.  No response is handled
\* before every fetch has taken its first step (cache hit or request sent),
\* and the next first step never waits for a response; a fetch whose request
\* is out can be answered, time out or fail whatever its siblings are doing;
\* and when every fetch has ended, the batch can end.
FetchesRunInParallel ==
    pc = "gather" =>
        /\ (\E i \in 1..Len(tasks) : Answered(i)) => AllStarted
        /\ \A i \in 1..Len(tasks) :
              (tasks[i].st = "new" /\ \A j \in 1..(i - 1) : tasks[j].st # "new")
                 => ENABLED TaskStart(i)
        /\ \A i \in 1..Len(tasks) :
              (tasks[i].st = "pending" /\ AllStarted)
                 => /\ ENABLED RespondNotOk(i)
                    /\ ENABLED RespondNetFail(i)
                    /\ ENABLED (\E text \in Markups, sz \in Sizes : RespondOk(i, text, sz))
        /\ (\A i \in 1..Len(tasks) : tasks[i].st \in {"done", "raised"})
              => ENABLED (GatherDone \/ GatherRaise)

\* The second fetch of a batch has returned its record while the first one,
\* sent before it, is still waiting for its response.
SiblingDoneWhileFirstPending ==
    /\ pc = "gather"
    /\ Len(tasks) = 2
    /\ tasks[1].st = "pending"
    /\ tasks[2].st = "done"
    /\ tasks[2].resp = "ok"
    /\ tasks[1].id # tasks[2].id
    /\ requests[tasks[1].id] > 0

====
